---- MODULE Spec2Model ----
(***************************************************************************)
(* A model of the checkers engine of src/checkers.py: the bit-packed       *)
(* Checker, the CheckerBoard and its generated starting formation, and the *)
(* CheckerEngine's movement_check / move.                                  *)
(*                                                                         *)
(* A Python Checker object is modelled as a record [id, data]: data is the *)
(* packed integer KCXXXXYYYY of the source, id is the object's identity    *)
(* (the ordinal of its creation by generate_board).  board.pieces is a     *)
(* sequence, because movement_check scans it in list order and the order   *)
(* decides which piece it reports.                                         *)
(***************************************************************************)
EXTENDS Integers, Sequences, FiniteSets, TLC

VARIABLES width, height, pieces, turn, calls, last

vars == <<width, height, pieces, turn, calls, last>>

(***************************************************************************)
(* Bounds of the model.                                                    *)
(***************************************************************************)
\* the constructor arguments tried for width and for height: 2 is below the
\* minimum size, so that the clamp of CheckerBoard.__init__ acts
DimArgs == {2, 3, 4}
\* number of move() calls explored from a small starting position
MaxCalls == 4
\* number of move() calls explored from the standard 8x8 starting position
MaxCalls8 == 1

\* number of calls explored when movement_check is also called on its own
MaxCallsCheck == 3
\* the constructor arguments tried when only generation is explored are
\* 0..MaxGenArg: below 3 and above 16 the clamp of CheckerBoard.__init__ acts
MaxGenArg == 17

\* "no piece": Python's None as the jumped piece
NoPiece == 0

(***************************************************************************)
(* Checker: the packed code and its accessors.                             *)
(***************************************************************************)
Bool2Int(b) == IF b THEN 1 ELSE 0

\* Checker.__init__: positions saturate into 0..15
ClampPos(v) == IF v > 15 THEN 15 ELSE IF v < 0 THEN 0 ELSE v

\* (king<<9) | (is_red<<8) | (x_pos<<4) | (y_pos); the fields do not overlap,
\* so the bitwise or is the sum
Checker(king, is_red, x_pos, y_pos) ==
    Bool2Int(king) * 512 + Bool2Int(is_red) * 256
        + ClampPos(x_pos) * 16 + ClampPos(y_pos)

\* ((data & 0b1000000000) >> 9) == 1
is_king(data) == (data \div 512) % 2 = 1

\* ((data & 0b0100000000) >> 8) == 1
get_color(data) == IF (data \div 256) % 2 = 1 THEN "Red" ELSE "Black"

\* (data & 0b0011110000) >> 4
get_x_pos(data) == (data \div 16) % 16

\* data & 0b0000001111
get_y_pos(data) == data % 16

\* the king bit added rather than or-ed
SetKingBit_Adds(data) == data + 512

\* data | 0b1000000000
SetKingBit(data) == IF is_king(data) THEN data ELSE data + 512

(***************************************************************************)
(* CheckerBoard.                                                           *)
(***************************************************************************)
\* CheckerBoard.__init__: width and height saturate into 3..16
ClampDim(v) == IF v > 16 THEN 16 ELSE IF v < 3 THEN 3 ELSE v

\* red_check with the parity test inverted
red_check_Inverted(row, column) == (row + column) % 2 = 0

\* red_check(row, column): True on the squares that receive no piece
red_check(row, column) == (row + column) % 2 # 0

\* the row count without the case for even heights
rows_to_generate_Half(h) == h \div 2

\* the number of rows of checkers generated for each side
rows_to_generate(h) == IF h % 2 = 0 THEN (h - 1) \div 2 ELSE h \div 2

\* the loop body testing the top square's colour for the bottom piece too
GenerateCell_BottomUsesTopRow(ps, w, h, current_row, column) ==
    LET top == IF ~red_check(current_row, column)
               THEN Append(ps, [id |-> Len(ps) + 1,
                                data |-> Checker(FALSE, FALSE, column, current_row)])
               ELSE ps
    IN  IF ~red_check(current_row, column)
        THEN Append(top, [id |-> Len(top) + 1,
                          data |-> Checker(FALSE, TRUE, column, h - current_row - 1)])
        ELSE top

\* the loop body placing the bottom piece one row too low
GenerateCell_RedRowOffByOne(ps, w, h, current_row, column) ==
    LET top == IF ~red_check(current_row, column)
               THEN Append(ps, [id |-> Len(ps) + 1,
                                data |-> Checker(FALSE, FALSE, column, current_row)])
               ELSE ps
    IN  IF ~red_check(h - current_row - 1, column)
        THEN Append(top, [id |-> Len(top) + 1,
                          data |-> Checker(FALSE, TRUE, column, h - current_row)])
        ELSE top

\* the pieces one (current_row, column) iteration of generate_board adds to
\* the list ps: first the top (Black) piece, then the bottom (Red) one
GenerateCell(ps, w, h, current_row, column) ==
    LET top == IF ~red_check(current_row, column)
               THEN Append(ps, [id |-> Len(ps) + 1,
                                data |-> Checker(FALSE, FALSE, column, current_row)])
               ELSE ps
    IN  IF ~red_check(h - current_row - 1, column)
        THEN Append(top, [id |-> Len(top) + 1,
                          data |-> Checker(FALSE, TRUE, column, h - current_row - 1)])
        ELSE top

\* the loops of generate_board, cell k = current_row * w + column; the test
\* Len(ps) >= 0 is always true and only makes the list be computed at every
\* iteration, as the loop does, rather than all at once at the end
RECURSIVE GenerateFrom(_, _, _, _)
GenerateFrom(ps, w, h, k) ==
    IF Len(ps) >= 0 /\ k >= rows_to_generate(h) * w THEN ps
    ELSE GenerateFrom(GenerateCell(ps, w, h, k \div w, k % w), w, h, k + 1)

generate_board(w, h) == GenerateFrom(<<>>, w, h, 0)

\* list.remove(piece): pieces compare by identity
remove_piece(ps, pid) == SelectSeq(ps, LAMBDA p : p.id # pid)

get_number_of_pieces(ps) == Len(ps)

(***************************************************************************)
(* CheckerEngine.movement_check.                                           *)
(***************************************************************************)
\* the target's column and row: move >> 4 and move & 0b00001111
MoveX(move) == move \div 16
MoveY(move) == move % 16

\* the result tuple (L, J, P) together with the piece list as the call leaves it
Result(legal, move_is_jump, jumped_piece, ps) ==
    [legal |-> legal, jump |-> move_is_jump, jumped |-> jumped_piece, pieces |-> ps]

\* the backwards check without its test for Red pieces
Backwards_BlackOnly(data, move) ==
    get_y_pos(data) >= MoveY(move) /\ ~is_king(data) /\ get_color(data) = "Black"

\* "the move is going backwards" for a piece that is not a king
Backwards(data, move) ==
    \/ get_y_pos(data) >= MoveY(move) /\ ~is_king(data) /\ get_color(data) = "Black"
    \/ get_y_pos(data) <= MoveY(move) /\ ~is_king(data) /\ get_color(data) = "Red"

\* the occupancy scan comparing a piece's row with the target's column
Occupied_RowTypo(ps, move) ==
    \E k \in 1..Len(ps) :
        get_x_pos(ps[k].data) = MoveX(move) /\ get_y_pos(ps[k].data) = MoveX(move)

\* the occupancy scan starting at the second piece of the list
Occupied_SkipsFirst(ps, move) ==
    \E k \in 2..Len(ps) :
        get_x_pos(ps[k].data) = MoveX(move) /\ get_y_pos(ps[k].data) = MoveY(move)

\* "the square is occupied": some piece of the list sits on the target
Occupied(ps, move) ==
    \E k \in 1..Len(ps) :
        get_x_pos(ps[k].data) = MoveX(move) /\ get_y_pos(ps[k].data) = MoveY(move)

\* the jump classification with the column distance off by one
IsJumpAttempt_Adjacent(data, move) ==
    get_x_pos(data) > MoveX(move) \/ get_x_pos(data) < MoveX(move)

\* "the move is attempting to be a jump"
IsJumpAttempt(data, move) ==
    get_x_pos(data) > MoveX(move) + 1 \/ get_x_pos(data) < MoveX(move) - 1

\* the loop body with the colour comparison inverted
JumpStep_ColourInverted(p, data, move, jumped) ==
    LET at_plus  == get_x_pos(p.data) = MoveX(move) + 1
                    /\ get_y_pos(p.data) = MoveY(move) + 1
        at_minus == get_x_pos(p.data) = MoveX(move) - 1
                    /\ get_y_pos(p.data) = MoveY(move) - 1
        same     == get_color(p.data) # get_color(data)
        j1       == IF at_plus /\ ~same THEN p.id ELSE jumped
    IN  IF at_plus /\ same THEN [done |-> TRUE, jumped |-> jumped]
        ELSE IF at_minus /\ same THEN [done |-> TRUE, jumped |-> j1]
        ELSE [done |-> FALSE, jumped |-> IF at_minus THEN p.id ELSE j1]

\* one iteration of the loop over board.pieces in the jumping logic, for the
\* piece p with jumped_piece = jumped so far: done is TRUE when the loop body
\* returns (a piece of the mover's colour on one of the two offsets)
JumpStep(p, data, move, jumped) ==
    LET at_plus  == get_x_pos(p.data) = MoveX(move) + 1
                    /\ get_y_pos(p.data) = MoveY(move) + 1
        at_minus == get_x_pos(p.data) = MoveX(move) - 1
                    /\ get_y_pos(p.data) = MoveY(move) - 1
        same     == get_color(p.data) = get_color(data)
        j1       == IF at_plus /\ ~same THEN p.id ELSE jumped
    IN  IF at_plus /\ same THEN [done |-> TRUE, jumped |-> jumped]
        ELSE IF at_minus /\ same THEN [done |-> TRUE, jumped |-> j1]
        ELSE [done |-> FALSE, jumped |-> IF at_minus THEN p.id ELSE j1]

\* the loop over board.pieces from index k on
RECURSIVE JumpScan(_, _, _, _, _)
JumpScan(ps, k, data, move, jumped) ==
    IF k > Len(ps) THEN [done |-> FALSE, jumped |-> jumped]
    ELSE LET s == JumpStep(ps[k], data, move, jumped)
         IN  IF s.done THEN s ELSE JumpScan(ps, k + 1, data, move, s.jumped)

\* the promotion with the two colours' far rows exchanged
Promote_RowsExchanged(data, move, h) ==
    IF get_color(data) = "Red"
    THEN (IF MoveY(move) = h - 1 THEN SetKingBit(data) ELSE data)
    ELSE (IF MoveY(move) = 0 THEN SetKingBit(data) ELSE data)

\* the promotion without any row test
Promote_AnyRow(data, move, h) == SetKingBit(data)

\* the promotion with the row test of the Red branch left out
Promote_RedAnyRow(data, move, h) ==
    IF get_color(data) = "Red"
    THEN SetKingBit(data)
    ELSE (IF MoveY(move) = h - 1 THEN SetKingBit(data) ELSE data)

\* "Promote the piece if it reaches the other end of the board"
Promote(data, move, h) ==
    IF get_color(data) = "Red"
    THEN (IF MoveY(move) = 0 THEN SetKingBit(data) ELSE data)
    ELSE (IF MoveY(move) = h - 1 THEN SetKingBit(data) ELSE data)

\* "make sure the move passed is a valid move to parse"
InvalidMove(move) == move < 0 \/ move > 255

\* the on-board checks with > in place of >=
OffGrid_OffByOne(move, w, h) == MoveX(move) > w \/ MoveY(move) > h

\* "make sure the move is on the board": the X check, then the Y check
OffGrid(move, w, h) == MoveX(move) >= w \/ MoveY(move) >= h

\* "check if the move is diagonal": the same column or the same row
NotDiagonal(data, move) ==
    get_x_pos(data) = MoveX(move) \/ get_y_pos(data) = MoveY(move)

\* movement_check(moving_piece, move) for the moving piece ps[i] on a board of
\* width w and height h
movement_check(ps, w, h, i, move) ==
    LET data == ps[i].data
    IN  IF InvalidMove(move) THEN Result(FALSE, FALSE, NoPiece, ps)
        ELSE IF OffGrid(move, w, h) THEN Result(FALSE, FALSE, NoPiece, ps)
        ELSE IF red_check(MoveY(move), MoveX(move)) THEN Result(FALSE, FALSE, NoPiece, ps)
        ELSE IF NotDiagonal(data, move) THEN Result(FALSE, FALSE, NoPiece, ps)
        ELSE IF Backwards(data, move) THEN Result(FALSE, FALSE, NoPiece, ps)
        ELSE IF Occupied(ps, move) THEN Result(FALSE, FALSE, NoPiece, ps)
        ELSE LET move_is_jump == IsJumpAttempt(data, move)
                 scan == IF move_is_jump
                         THEN JumpScan(ps, 1, data, move, NoPiece)
                         ELSE [done |-> FALSE, jumped |-> NoPiece]
             IN  IF move_is_jump /\ Backwards(data, move)
                 THEN Result(FALSE, move_is_jump, NoPiece, ps)
                 ELSE IF scan.done
                 THEN Result(FALSE, move_is_jump, scan.jumped, ps)
                 ELSE Result(TRUE, move_is_jump, scan.jumped,
                             [ps EXCEPT ![i].data = Promote(data, move, h)])

(***************************************************************************)
(* CheckerEngine.move.                                                     *)
(***************************************************************************)
\* the position write keeping the colour bit only
WritePosition_DropsKing(data, move) == ((data \div 256) % 2) * 256 + move

\* ((data >> 8) << 8) | move: the position bits are replaced by the target
WritePosition(data, move) == (data \div 256) * 256 + move

\* move() without the removal of the jumped piece
MoveEffect_KeepsJumped(r, i, move) ==
    IF r.legal THEN [r.pieces EXCEPT ![i].data = WritePosition(@, move)] ELSE r.pieces

\* the piece list after move(moving_piece, move), given movement_check's result r
MoveEffect(r, i, move) ==
    LET moved == IF r.legal
                 THEN [r.pieces EXCEPT ![i].data = WritePosition(@, move)]
                 ELSE r.pieces
    IN  IF r.jump /\ r.jumped # NoPiece THEN remove_piece(moved, r.jumped) ELSE moved

\* the target encodings tried on a w x h board: every square of the board and
\* of one more column and row around it, the largest byte, and the two
\* nearest values outside 0..255
MoveArgs(w, h) == {16 * c + r : c \in 0..w, r \in 0..h} \cup {-1, 255, 256}

\* move(pieces[i], m); r is the tuple movement_check returns, computed once
move(i, m) ==
    \E r \in {movement_check(pieces, width, height, i, m)} :
        /\ pieces' = MoveEffect(r, i, m)
        /\ last' = [op |-> "move", mover |-> pieces[i].id, target |-> m,
                    legal |-> r.legal, jump |-> r.jump, jumped |-> r.jumped,
                    before |-> pieces]
        /\ calls' = calls + 1
        /\ UNCHANGED <<width, height, turn>>

(***************************************************************************)
(* Specifications.                                                         *)
(***************************************************************************)
NoCall(ps) == [op |-> "init", mover |-> NoPiece, target |-> 0, legal |-> FALSE,
               jump |-> FALSE, jumped |-> NoPiece, before |-> ps]

\* CheckerEngine(w, h): the state after construction
Engine(w, h) ==
    /\ width = ClampDim(w)
    /\ height = ClampDim(h)
    /\ pieces = generate_board(ClampDim(w), ClampDim(h))
    /\ turn = 0
    /\ calls = 0
    /\ last = NoCall(generate_board(ClampDim(w), ClampDim(h)))

Init == \E w \in DimArgs, h \in DimArgs : Engine(w, h)

Move == /\ calls < MaxCalls
        /\ \E i \in 1..Len(pieces), m \in MoveArgs(width, height) : move(i, m)

Next == Move

Spec == Init /\ [][Next]_vars

\* the standard game: CheckerEngine() with the default 8x8 board
Init8 == Engine(8, 8)

Move8 == /\ calls < MaxCalls8
         /\ \E i \in 1..Len(pieces), m \in MoveArgs(width, height) : move(i, m)

Next8 == Move8

Spec8 == Init8 /\ [][Next8]_vars

\* movement_check(pieces[i], m) called on its own: the caller gets the tuple,
\* the board keeps whatever the validation did to the moving piece
check(i, m) ==
    \E r \in {movement_check(pieces, width, height, i, m)} :
        /\ pieces' = r.pieces
        /\ last' = [op |-> "check", mover |-> pieces[i].id, target |-> m,
                    legal |-> r.legal, jump |-> r.jump, jumped |-> r.jumped,
                    before |-> pieces]
        /\ calls' = calls + 1
        /\ UNCHANGED <<width, height, turn>>

Check == /\ calls < MaxCallsCheck
         /\ \E i \in 1..Len(pieces), m \in MoveArgs(width, height) : check(i, m)

MoveOrCheck ==
    /\ calls < MaxCallsCheck
    /\ \E i \in 1..Len(pieces), m \in MoveArgs(width, height) : move(i, m)

NextCheck == MoveOrCheck \/ Check

SpecCheck == Init /\ [][NextCheck]_vars

\* CheckerBoard.__init__ just before it calls generate_board: the sizes are
\* clamped and the piece list is empty
Board(w, h) ==
    /\ width = ClampDim(w)
    /\ height = ClampDim(h)
    /\ pieces = <<>>
    /\ turn = 0
    /\ calls = 0
    /\ last = [NoCall(<<>>) EXCEPT !.op = "new"]

InitGen == \E w \in 0..MaxGenArg, h \in 0..MaxGenArg : Board(w, h)

\* the call of generate_board that ends the construction
Generate ==
    /\ last.op = "new"
    /\ pieces' = generate_board(width, height)
    /\ last' = NoCall(generate_board(width, height))
    /\ UNCHANGED <<width, height, turn, calls>>

NextGen == Generate

SpecGen == InitGen /\ [][NextGen]_vars

(***************************************************************************)
(* Vocabulary of the properties.  last records the latest move() call: the *)
(* identity of the moving piece, the target, the (L, J, P) result and the  *)
(* piece list as it was when the call was made.                            *)
(***************************************************************************)
Called == last.op = "move"

Has(ps, pid) == \E k \in 1..Len(ps) : ps[k].id = pid

DataOf(ps, pid) == ps[CHOOSE k \in 1..Len(ps) : ps[k].id = pid].data

\* the moving piece's code when the call was made, and after it
MoverBefore == DataOf(last.before, last.mover)
MoverAfter == DataOf(pieces, last.mover)

TargetX == last.target \div 16
TargetY == last.target % 16

\* the king flag read off the code: bit 9
KingBit(data) == (data \div 512) % 2

\* the moving piece's code as the validation of the call left it, before the
\* position write
MoverValidated ==
    LET i == CHOOSE k \in 1..Len(last.before) : last.before[k].id = last.mover
    IN  movement_check(last.before, width, height, i, last.target).pieces[i].data

\* the target is one byte, on the board, playable and was empty
TargetFree ==
    /\ last.target \in 0..255
    /\ TargetX < width /\ TargetY < height
    /\ (TargetX + TargetY) % 2 = 0
    /\ \A k \in 1..Len(last.before) :
          ~(get_x_pos(last.before[k].data) = TargetX
            /\ get_y_pos(last.before[k].data) = TargetY)

\* the row direction of the call is one the moving piece is allowed
RowAllowed ==
    IF KingBit(MoverBefore) = 1 THEN TargetY # get_y_pos(MoverBefore)
    ELSE IF get_color(MoverBefore) = "Black" THEN TargetY > get_y_pos(MoverBefore)
    ELSE TargetY < get_y_pos(MoverBefore)

\* piece code q sits on one of the two offsets (+1,+1), (-1,-1) of the target
AtOffset(q) ==
    \/ get_x_pos(q) = TargetX + 1 /\ get_y_pos(q) = TargetY + 1
    \/ get_x_pos(q) = TargetX - 1 /\ get_y_pos(q) = TargetY - 1

ColumnDistance ==
    IF get_x_pos(MoverBefore) >= TargetX THEN get_x_pos(MoverBefore) - TargetX
    ELSE TargetX - get_x_pos(MoverBefore)

RowDistance ==
    IF get_y_pos(MoverBefore) >= TargetY THEN get_y_pos(MoverBefore) - TargetY
    ELSE TargetY - get_y_pos(MoverBefore)

\* a move to a free square two columns away, in an allowed row direction
TwoColumnCase == Called /\ TargetFree /\ ColumnDistance = 2 /\ RowAllowed

(***************************************************************************)
(* C1: a move() that is found illegal leaves the board unchanged; no piece *)
(* is removed and no piece's code changes.                                 *)
(***************************************************************************)
C1_IllegalMoveLeavesBoard == (Called /\ ~last.legal) => pieces = last.before

(***************************************************************************)
(* C2: whenever the validation answers legal = false, the jumped piece it  *)
(* returns is none.                                                        *)
(***************************************************************************)
C2_IllegalReturnsNoPiece == (Called /\ ~last.legal) => last.jumped = NoPiece

(***************************************************************************)
(* C3 as stated: in the two-column case, every opposing piece on one of    *)
(* the two offsets makes the move legal, a jump, and is gone afterwards.   *)
(***************************************************************************)
C3_JumpCapturesOpposing ==
    TwoColumnCase =>
        \A k \in 1..Len(last.before) :
            (AtOffset(last.before[k].data)
             /\ get_color(last.before[k].data) # get_color(MoverBefore))
            => (last.legal /\ last.jump /\ ~Has(pieces, last.before[k].id))

\* exactly one piece stands on the two offset squares
OneAtOffsets ==
    Cardinality({k \in 1..Len(last.before) : AtOffset(last.before[k].data)}) = 1

(***************************************************************************)
(* C3 amended: in the two-column case, when an opposing piece is on one of *)
(* the two offsets and no other piece is on either of them, the move is    *)
(* legal, a jump, and the opposing piece is gone afterwards.               *)
(***************************************************************************)
C3_JumpCapturesLoneOpposing ==
    (TwoColumnCase /\ OneAtOffsets) =>
        \A k \in 1..Len(last.before) :
            (AtOffset(last.before[k].data)
             /\ get_color(last.before[k].data) # get_color(MoverBefore))
            => (last.legal /\ last.jump /\ ~Has(pieces, last.before[k].id))

C3_Witness ==
    /\ TwoColumnCase /\ OneAtOffsets
    /\ \E k \in 1..Len(last.before) :
          /\ AtOffset(last.before[k].data)
          /\ get_color(last.before[k].data) # get_color(MoverBefore)
          /\ ~Has(pieces, last.before[k].id)
    /\ last.legal /\ last.jump

(***************************************************************************)
(* C4: every legal jump returns a jumped piece, of the colour opposite to  *)
(* the moving piece.                                                       *)
(***************************************************************************)
C4_LegalJumpCaptures ==
    (Called /\ last.legal /\ last.jump) =>
        /\ last.jumped # NoPiece
        /\ Has(last.before, last.jumped)
        /\ get_color(DataOf(last.before, last.jumped)) # get_color(MoverBefore)

(***************************************************************************)
(* C5: after a legal move() of a Red piece to row 0, and of a Black piece  *)
(* to row height-1, bit 9 of the piece's code is set.                      *)
(***************************************************************************)
C5_PromotionOnFarRow ==
    (Called /\ last.legal) =>
        /\ Has(pieces, last.mover)
        /\ (get_color(MoverBefore) = "Red" /\ TargetY = 0) => KingBit(MoverAfter) = 1
        /\ (get_color(MoverBefore) = "Black" /\ TargetY = height - 1)
               => KingBit(MoverAfter) = 1

C5_Witness ==
    /\ Called /\ last.legal
    /\ get_color(MoverBefore) = "Red" /\ TargetY = 0
    /\ KingBit(MoverBefore) = 0
    /\ KingBit(MoverAfter) = 1

(***************************************************************************)
(* C6: a legal move() puts the moving piece on the target's column and     *)
(* row, keeps its colour and never clears its king flag, which is the flag *)
(* the validation left (a promotion survives the position write); every    *)
(* other piece keeps its code, except the captured piece, which may be     *)
(* removed; no piece is added.                                             *)
(***************************************************************************)
C6_LegalMoveFrame ==
    (Called /\ last.legal) =>
        /\ Has(pieces, last.mover)
        /\ get_x_pos(MoverAfter) = TargetX
        /\ get_y_pos(MoverAfter) = TargetY
        /\ get_color(MoverAfter) = get_color(MoverBefore)
        /\ KingBit(MoverAfter) >= KingBit(MoverBefore)
        /\ KingBit(MoverAfter) = KingBit(MoverValidated)
        /\ \A k \in 1..Len(last.before) :
              (last.before[k].id # last.mover /\ last.before[k].id # last.jumped)
              => \E j \in 1..Len(pieces) : pieces[j] = last.before[k]
        /\ \A j \in 1..Len(pieces) : Has(last.before, pieces[j].id)
        /\ Len(pieces) >= Len(last.before) - 1

C6_Witness ==
    /\ Called /\ last.legal
    /\ KingBit(MoverBefore) = 0 /\ KingBit(MoverAfter) = 1
    /\ get_x_pos(MoverAfter) = TargetX /\ get_y_pos(MoverAfter) = TargetY
    /\ Len(pieces) = Len(last.before) - 1

(***************************************************************************)
(* C7: a piece that is not a king moves legally only to a strictly greater *)
(* row when Black and to a strictly smaller row when Red, for plain moves  *)
(* and jumps alike; a step to a free diagonally adjacent square is legal   *)
(* exactly when it goes forward or the piece is a king.                    *)
(***************************************************************************)
C7_ForwardOnlyUnlessKing ==
    Called =>
        /\ (last.legal /\ KingBit(MoverBefore) = 0 /\ get_color(MoverBefore) = "Black")
               => TargetY > get_y_pos(MoverBefore)
        /\ (last.legal /\ KingBit(MoverBefore) = 0 /\ get_color(MoverBefore) = "Red")
               => TargetY < get_y_pos(MoverBefore)
        /\ (TargetFree /\ ColumnDistance = 1 /\ RowDistance = 1)
               => (last.legal <=> RowAllowed)

\* a king has legally moved against its colour's forward direction
C7_Witness ==
    /\ Called /\ last.legal
    /\ KingBit(MoverBefore) = 1
    /\ \/ get_color(MoverBefore) = "Red" /\ TargetY > get_y_pos(MoverBefore)
       \/ get_color(MoverBefore) = "Black" /\ TargetY < get_y_pos(MoverBefore)

(***************************************************************************)
(* C8: a move whose target is outside 0..255, or whose column is >= width  *)
(* or row >= height, is illegal, not a jump, names no jumped piece and     *)
(* leaves the board unchanged.                                             *)
(***************************************************************************)
C8_OffBoardRejected ==
    (Called /\ (last.target < 0 \/ last.target > 255
                \/ TargetX >= width \/ TargetY >= height)) =>
        /\ ~last.legal
        /\ ~last.jump
        /\ last.jumped = NoPiece
        /\ pieces = last.before

\* a one-byte target in the first column right of the board, on a square of
\* playable parity, in a row and column the moving piece could go to
C8_Witness ==
    /\ Called
    /\ last.target \in 0..255
    /\ TargetX = width /\ TargetY < height
    /\ (TargetX + TargetY) % 2 = 0
    /\ get_x_pos(MoverBefore) # TargetX
    /\ RowAllowed
    /\ ~last.legal

(***************************************************************************)
(* C9: validation rejects every target with (row + column) odd, and in     *)
(* every state, the generated one included, every piece is on a square of  *)
(* the board with (row + column) even.                                     *)
(***************************************************************************)
C9_PlayableParity ==
    /\ (Called /\ last.target \in 0..255 /\ (TargetX + TargetY) % 2 = 1) => ~last.legal
    /\ \A k \in 1..Len(pieces) :
          /\ get_x_pos(pieces[k].data) < width
          /\ get_y_pos(pieces[k].data) < height
          /\ (get_x_pos(pieces[k].data) + get_y_pos(pieces[k].data)) % 2 = 0

\* a piece has moved, and a later call to an on-board square of odd parity,
\* in a column and row the moving piece could go to, was rejected
C9_Witness ==
    /\ Called /\ ~last.legal
    /\ last.target \in 0..255 /\ TargetX < width /\ TargetY < height
    /\ (TargetX + TargetY) % 2 = 1
    /\ get_x_pos(MoverBefore) # TargetX
    /\ RowAllowed
    /\ last.before # generate_board(width, height)

(***************************************************************************)
(* C10 as stated: on the 8x8 board no piece can legally move to (0,0), in  *)
(* any state reached from the starting position.                           *)
(***************************************************************************)
C10_NoMoveToOrigin ==
    (width = 8 /\ height = 8) =>
        \A i \in 1..Len(pieces) : ~movement_check(pieces, width, height, i, 0).legal

\* a piece stands on the square (0,0)
OriginHeld(ps) ==
    \E k \in 1..Len(ps) : get_x_pos(ps[k].data) = 0 /\ get_y_pos(ps[k].data) = 0

(***************************************************************************)
(* C10 amended: on the 8x8 board a piece stands on (0,0) in the starting   *)
(* position, and while a piece stands there no piece can legally move to   *)
(* (0,0); a move() to (0,0) made then is illegal and changes nothing.      *)
(***************************************************************************)
C10_NoMoveToHeldOrigin ==
    (width = 8 /\ height = 8) =>
        /\ calls = 0 => OriginHeld(pieces)
        /\ OriginHeld(pieces) =>
              \A i \in 1..Len(pieces) :
                  ~movement_check(pieces, width, height, i, 0).legal
        /\ (Called /\ last.target = 0 /\ OriginHeld(last.before))
               => (~last.legal /\ pieces = last.before)

\* a Red piece from another column and a lower row was sent to the held (0,0)
C10_Witness ==
    /\ width = 8 /\ height = 8
    /\ Called /\ last.target = 0 /\ OriginHeld(last.before)
    /\ get_color(MoverBefore) = "Red"
    /\ get_x_pos(MoverBefore) # 0 /\ get_y_pos(MoverBefore) # 0
    /\ ~last.legal

(***************************************************************************)
(* C11: every move found legal has a column displacement and a row         *)
(* displacement of equal magnitude.                                        *)
(***************************************************************************)
C11_LegalMovesDiagonal == (Called /\ last.legal) => ColumnDistance = RowDistance

(***************************************************************************)
(* Vocabulary of the generation properties.                                *)
(***************************************************************************)
\* generate_board has run and no move() was made
Generated == last.op = "init"

Codes(ps) == {ps[k].data : k \in 1..Len(ps)}

BlackCodes(ps) == {d \in Codes(ps) : (d \div 256) % 2 = 0}
RedCodes(ps) == {d \in Codes(ps) : (d \div 256) % 2 = 1}

RowsOf(ds) == {d % 16 : d \in ds}

\* the number of piece rows per side
RowsPerSide(h) == IF h % 2 = 0 THEN (h - 1) \div 2 ELSE h \div 2

\* the codes of the starting formation: non-king Black pieces (bits 9 and 8
\* clear) in the top rows, non-king Red pieces (bit 8 set) in the bottom rows
StartCodes(w, h) ==
    {16 * c + r : <<c, r>> \in
        {q \in (0..(w - 1)) \X (0..(RowsPerSide(h) - 1)) : (q[2] + q[1]) % 2 = 0}}
    \cup
    {256 + 16 * c + (h - 1 - r) : <<c, r>> \in
        {q \in (0..(w - 1)) \X (0..(RowsPerSide(h) - 1)) :
            (h - 1 - q[2] + q[1]) % 2 = 0}}

(***************************************************************************)
(* C12: for every width and height in 3..16 the generated pieces are       *)
(* exactly the starting formation, one piece per square; the 8x8 board has *)
(* 12 Black and 12 Red pieces and none in rows 3-4, the 3x3 board one row  *)
(* per side.                                                               *)
(***************************************************************************)
C12_GeneratedFormation ==
    Generated =>
        /\ width \in 3..16 /\ height \in 3..16
        /\ Codes(pieces) = StartCodes(width, height)
        /\ Len(pieces) = Cardinality(StartCodes(width, height))
        /\ (width = 8 /\ height = 8) =>
              /\ Cardinality(BlackCodes(pieces)) = 12
              /\ Cardinality(RedCodes(pieces)) = 12
              /\ Len(pieces) = 24
              /\ RowsOf(Codes(pieces)) \cap {3, 4} = {}
        /\ (width = 3 /\ height = 3) =>
              /\ RowsOf(BlackCodes(pieces)) = {0}
              /\ RowsOf(RedCodes(pieces)) = {2}

C12_Witness ==
    /\ Generated /\ width = 8 /\ height = 8
    /\ Len(pieces) = 24
    /\ RowsOf(Codes(pieces)) = {0, 1, 2, 5, 6, 7}

(***************************************************************************)
(* C13 as stated: every generated piece sits on a square where             *)
(* (row + column) is odd.                                                  *)
(***************************************************************************)
C13_GeneratedOnOddSquares ==
    Generated =>
        \A k \in 1..Len(pieces) :
            (get_y_pos(pieces[k].data) + get_x_pos(pieces[k].data)) % 2 = 1

(***************************************************************************)
(* C13 amended: every generated piece sits on a square where               *)
(* (row + column) is even.                                                 *)
(***************************************************************************)
C13_GeneratedOnEvenSquares ==
    Generated =>
        \A k \in 1..Len(pieces) :
            (get_y_pos(pieces[k].data) + get_x_pos(pieces[k].data)) % 2 = 0

C13_Witness ==
    /\ Generated /\ width = 16 /\ height = 16
    /\ Len(pieces) = 112

PassedSixGates ==
    /\ TargetFree
    /\ get_x_pos(MoverBefore) # TargetX
    /\ get_y_pos(MoverBefore) # TargetY
    /\ RowAllowed

(***************************************************************************)
(* C15: the call is reported as a jump exactly when it passed the six      *)
(* gates and the column distance is 2 or more, whatever the row distance.  *)
(***************************************************************************)
C15_JumpClassification ==
    Called => (last.jump <=> (PassedSixGates /\ ColumnDistance >= 2))

\* a jump over two columns and one row, and one found illegal after the
\* classification, are both reported as jumps
C15_Witness ==
    /\ Called /\ last.jump
    /\ ColumnDistance >= 2 /\ RowDistance = 1
    /\ ~last.legal

\* Red's occupied rows are Black's occupied rows reflected
RowsMirrored ==
    RowsOf(RedCodes(pieces)) = {height - 1 - r : r \in RowsOf(BlackCodes(pieces))}

NumberOf(colour) ==
    Cardinality({k \in 1..Len(pieces) : get_color(pieces[k].data) = colour})

(***************************************************************************)
(* C17 as stated: for every size the two colours start with the same       *)
(* number of pieces, on rows that are each other's reflection.             *)
(***************************************************************************)
C17_MirroredEqualCounts ==
    Generated => (NumberOf("Red") = NumberOf("Black") /\ RowsMirrored)

(***************************************************************************)
(* C17 amended: Red's rows are Black's rows reflected; the two colours     *)
(* start with the same number of pieces when the width is even, the height *)
(* is odd or the number of rows per side is even, and otherwise (odd       *)
(* width, height 4, 8, 12 or 16) Black starts with one piece more.         *)
(***************************************************************************)
C17_MirroredRows ==
    Generated =>
        /\ RowsMirrored
        /\ IF width % 2 = 0 \/ height % 2 = 1 \/ RowsPerSide(height) % 2 = 0
           THEN NumberOf("Red") = NumberOf("Black")
           ELSE /\ NumberOf("Black") = NumberOf("Red") + 1
                /\ height \in {4, 8, 12, 16}

C17_Witness ==
    /\ Generated /\ width = 7 /\ height = 8
    /\ NumberOf("Black") = 11 /\ NumberOf("Red") = 10
    /\ RowsMirrored

\* the latest call was movement_check on its own
Checked == last.op = "check"

\* the target row is the far row of the moving piece's colour
OnFarRow ==
    IF get_color(MoverBefore) = "Red" THEN TargetY = 0 ELSE TargetY = height - 1

(***************************************************************************)
(* C16: movement_check on its own adds, removes and repositions no piece   *)
(* and changes no colour; it changes at most the king flag of the moving   *)
(* piece, and sets it only on a legal result whose target row is the far   *)
(* row of the piece's colour; on an illegal result nothing changes.        *)
(***************************************************************************)
C16_ValidationFrame ==
    Checked =>
        /\ Len(pieces) = Len(last.before)
        /\ \A k \in 1..Len(pieces) :
              /\ pieces[k].id = last.before[k].id
              /\ pieces[k].data % 512 = last.before[k].data % 512
              /\ pieces[k].data # last.before[k].data =>
                    /\ pieces[k].id = last.mover
                    /\ KingBit(last.before[k].data) = 0
                    /\ KingBit(pieces[k].data) = 1
                    /\ last.legal
                    /\ OnFarRow
        /\ ~last.legal => pieces = last.before

\* a validation on its own has set the king flag of a piece it did not move
C16_Witness ==
    /\ Checked /\ last.legal /\ OnFarRow
    /\ KingBit(MoverBefore) = 0 /\ KingBit(MoverAfter) = 1
    /\ get_y_pos(MoverAfter) = get_y_pos(MoverBefore)
    /\ get_y_pos(MoverAfter) # TargetY

(***************************************************************************)
(* C18: after generation and any sequence of move() calls no two pieces    *)
(* occupy the same (column, row) square.                                   *)
(***************************************************************************)
C18_NoSharedSquare ==
    \A j, k \in 1..Len(pieces) :
        j # k => \/ get_x_pos(pieces[j].data) # get_x_pos(pieces[k].data)
                 \/ get_y_pos(pieces[j].data) # get_y_pos(pieces[k].data)

\* a move that passed every gate before the occupancy check was sent to a
\* square that held a piece, and was rejected
C18_Witness ==
    /\ Called /\ ~last.legal
    /\ last.target \in 0..255 /\ TargetX < width /\ TargetY < height
    /\ (TargetX + TargetY) % 2 = 0
    /\ get_x_pos(MoverBefore) # TargetX
    /\ RowAllowed
    /\ \E k \in 1..Len(last.before) :
          /\ get_x_pos(last.before[k].data) = TargetX
          /\ get_y_pos(last.before[k].data) = TargetY
    /\ last.before # generate_board(width, height)

(***************************************************************************)
(* C19: a move() never adds a piece and removes at most one; a removed     *)
(* piece is of the colour opposite to the moving piece, and the moving     *)
(* piece stays on the board.                                               *)
(***************************************************************************)
C19_AtMostOneOpposingRemoved ==
    Called =>
        /\ Len(pieces) <= Len(last.before)
        /\ Len(pieces) >= Len(last.before) - 1
        /\ \A k \in 1..Len(pieces) : Has(last.before, pieces[k].id)
        /\ Has(pieces, last.mover)
        /\ \A k \in 1..Len(last.before) :
              ~Has(pieces, last.before[k].id) =>
                  get_color(last.before[k].data) # get_color(MoverBefore)

\* a king's move has removed a piece
C19_Witness ==
    /\ Called
    /\ KingBit(MoverBefore) = 1
    /\ Len(pieces) = Len(last.before) - 1

\* the far row of the colour of piece code d
FarRow(d) == IF get_color(d) = "Red" THEN 0 ELSE height - 1

(***************************************************************************)
(* C20: a piece is a king only if it stands on the far row of its colour   *)
(* or was a king already before the latest move() (so that every king has *)
(* stood on its far row), and no piece that is not a king stands on the    *)
(* far row of its colour.                                                  *)
(***************************************************************************)
C20_KingsCameFromFarRow ==
    \A k \in 1..Len(pieces) :
        /\ KingBit(pieces[k].data) = 1 =>
              \/ get_y_pos(pieces[k].data) = FarRow(pieces[k].data)
              \/ /\ Called
                 /\ Has(last.before, pieces[k].id)
                 /\ KingBit(DataOf(last.before, pieces[k].id)) = 1
        /\ get_y_pos(pieces[k].data) = FarRow(pieces[k].data)
              => KingBit(pieces[k].data) = 1

\* a king has left the far row on which it was promoted
C20_Witness ==
    /\ Called /\ last.legal
    /\ KingBit(MoverAfter) = 1
    /\ get_y_pos(MoverBefore) = FarRow(MoverBefore)
    /\ get_y_pos(MoverAfter) # FarRow(MoverAfter)

====
